---------------------------- MODULE Spec2Model ----------------------------
(***************************************************************************)
(* Model of the two notifier scripts of personal-scripts2:                 *)
(*   discord_notifier.py  (DiscordNotifier: Pixiv + X/Twitter checkers)    *)
(*   patreon_notifier.py  (PatreonNotifier: tier-routed Patreon checker)   *)
(*                                                                         *)
(* A behaviour follows ONE of the two scripts (cfg.prog): they are         *)
(* separate processes with separate state files and share no state.  A    *)
(* run is one process execution: __init__ (load), the checkers, exit.      *)
(* Upstream feeds only change between runs: every source is fetched once   *)
(* per run, so a post published during a run is seen exactly as if it had  *)
(* been published just before or just after that run.                      *)
(*                                                                         *)
(* Identifiers are modelled as numbers; str(id) is injective and the       *)
(* seen-sets hold the strings, so set membership is unchanged.  The JSON   *)
(* file holds lists written from sets; its content is modelled as sets.    *)
(* Message texts (title, translation, link) do not influence control flow  *)
(* and are left out.  Posts are assumed well formed (an id, integer tiers, *)
(* an ISO timestamp or none), and the monitored accounts are distinct.     *)
(***************************************************************************)
EXTENDS Integers, Sequences, FiniteSets, TLC

(*************************** bounds of the model ***************************)
\* number of posts (illustrations and tweets together) ever published upstream
\* of the Discord notifier
MaxPosts == 3
\* number of posts the Patreon campaign ever publishes
MaxPatreon == 2
\* the same two numbers in the specification with overlapping invocations
\* (RaceSpec) and in the one that watches the first run (FirstRunSpec)
MaxFewPosts == 2
MaxFewPatreon == 1
\* illustrations and tweets in the specification with fairness (DiscordRunSpec)
MaxRunPosts == 1

(**************************** program constants ****************************)
\* result['illusts'][:2]
PIXIV_LATEST == 2
\* tweets.data[:2]
TWITTER_LATEST == 2
\* all_posts[:10]
PATREON_LATEST == 10
\* 'page[count]': 100
PAGE_COUNT == 100
\* time.sleep(3) between notifications
NOTIFY_DELAY == 3
\* time.sleep(5) between accounts
ACCOUNT_DELAY == 5
\* KST = timezone(timedelta(hours=9)), in minutes
KST == 540
\* pub_kst.hour == 20
SKIP_HOUR == 20
\* pub_kst.minute in [30, 31]
SKIP_MINUTE_A == 30
SKIP_MINUTE_B == 31
\* minutes in a day (datetime arithmetic)
DAY == 1440

(************************ environment-provided values **********************)
\* os.getenv(...) returning None for a tier id
NoTierId == 0
\* PATREON_TARGET_TIER_ID (Gourmet), PATREON_LOWEST_TIER_ID (Taster), and a
\* tier of the campaign that is neither
GOURMET_TIER == 1
TASTER_TIER == 2
OTHER_TIER == 3
\* published_at missing or '' in the post's attributes
NoTime == 0 - 1

\* the accounts TWITTER_USERNAMES may name
Accounts == {1, 2}
\* TWITTER_USERNAMES after splitting: lists of distinct accounts
UsernameLists == {<< >>, <<1>>, <<1, 2>>}

\* tier lists a Patreon post may carry
TierSets == {{}, {GOURMET_TIER}, {TASTER_TIER}, {GOURMET_TIER, TASTER_TIER}, {OTHER_TIER}}
\* the posts the campaign may publish, as <<tiers, published_at>>, the time
\* being the minute of the day in UTC (11:30 and 11:31 UTC are 20:30 and 20:31
\* KST; 20:30 UTC is 05:30 KST): every tier list at an ordinary time; in the
\* scheduled slot (both minutes), a post of the Gourmet tier and one of a
\* tier that is not configured; without a timestamp, the two kinds of public
\* post
PostKinds ==
    (TierSets \X {1230})
    \cup ({{GOURMET_TIER}, {OTHER_TIER}} \X {690, 691})
    \cup ({{}, {TASTER_TIER}} \X {NoTime})

Sources == {"pixiv", "twitter", "patreon"}

(******************************** helpers **********************************)
\* seq[:n]
Take(seq, n) == SubSeq(seq, 1, IF Len(seq) < n THEN Len(seq) ELSE n)

\* the elements of a sequence
Range(seq) == {seq[k] : k \in 1..Len(seq)}

\* the keys of the state files and of the in-memory dicts
NoIds == [s \in Sources |-> {}]

\* one entry of the trace of a run: what the process did, in order
Event(op, src, id, dest, ok) == [op |-> op, src |-> src, id |-> id, dest |-> dest, ok |-> ok]

\* identifier of the k-th tweet of an account (tweet ids are global on X)
TweetId(account, k) == account * 10 + k

(****************************** configuration ******************************)
\* os.getenv(...) of DiscordNotifier.__init__ and TWITTER_USERNAMES; a webhook
\* or credential is TRUE when the variable is set
AllDiscordConfigs ==
    [prog : {"discord"},
     pixiv_webhook : BOOLEAN, twitter_webhook : BOOLEAN,
     twitter_usernames : UsernameLists,
     webhook_gourmet : {FALSE}, webhook_public : {FALSE},
     access_token : {FALSE}, campaign_id : {FALSE},
     target_tier_id : {NoTierId}, lowest_tier_id : {NoTierId}]

\* the environments explored: both webhooks set, with every list of accounts;
\* one webhook missing, with one account
DiscordConfigs ==
    {c \in AllDiscordConfigs :
        \/ c.pixiv_webhook /\ c.twitter_webhook
        \/ (c.pixiv_webhook \/ c.twitter_webhook) /\ c.twitter_usernames = <<1>>}

\* os.getenv(...) of PatreonNotifier.__init__
AllPatreonConfigs ==
    [prog : {"patreon"},
     pixiv_webhook : {FALSE}, twitter_webhook : {FALSE},
     twitter_usernames : {<< >>},
     webhook_gourmet : BOOLEAN, webhook_public : BOOLEAN,
     access_token : BOOLEAN, campaign_id : BOOLEAN,
     target_tier_id : {NoTierId, GOURMET_TIER},
     lowest_tier_id : {NoTierId, TASTER_TIER}]

\* number of settings of a Patreon environment that are not set
Missing(c) ==
    Cardinality({k \in {"webhook_gourmet", "webhook_public", "access_token", "campaign_id"} : ~c[k]})
    + Cardinality({k \in {"target_tier_id", "lowest_tier_id"} : c[k] = NoTierId})

\* the environments explored: everything set, or exactly one setting missing
PatreonConfigs == {c \in AllPatreonConfigs : Missing(c) <= 1}

(********************************* state ***********************************)
VARIABLES
    cfg,            \* the environment of the process (fixed over a behaviour)
    pixiv_illusts,  \* upstream: the account's illustrations, newest first
    tweets,         \* upstream: each account's tweets, newest first
    patreon_posts,  \* upstream: the campaign's posts, in API order
    notified_file,  \* the state file: exists, and its lists per key
    notified_ids,   \* self.notified_ids of the running process
    is_first_run,   \* self.is_first_run of the running process
    pc,             \* "idle" (no process), "pixiv", "twitter", "patreon", "done"
    account_i,      \* index of the account check_twitter_new_posts is at
    log,            \* trace of the current run
    loaded,         \* content of the state file when the run loaded it
    delivered,      \* history: <<source, id, webhook>> delivered (2xx answer)
    absorbed,       \* history: <<source, id>> marked seen by a first run
    suppressed,     \* history: <<source, id, first run>> marked seen as scheduled post
    prev_failed,    \* history: deliveries that failed in the previous run
    redelivered,    \* history: <<source, id>> delivered again after a delivery
    at_first,       \* history (kept in FirstRunSpec only): whether a process
                    \* ever started, and the <<source, id>> in the latest-K
                    \* windows upstream when the first one did, if that was
                    \* a first run
    overlap,        \* history: "no", or an invocation overlapped the current
                    \* run ("now") or an earlier one ("past")
    since_last      \* history: "changed" (no run yet, or upstream published
                    \* since the previous run), else how the previous run
                    \* went: "clean" (no fetch, no delivery failed), "failed"

upstream == <<pixiv_illusts, tweets, patreon_posts>>
process == <<notified_ids, is_first_run, pc, account_i, log, loaded>>
history == <<delivered, absorbed, suppressed, prev_failed, redelivered, at_first, overlap>>
vars == <<cfg, upstream, notified_file, process, history, since_last>>

(****************************** state store ********************************)
\* load_notified_ids that reads the Pixiv list only
load_notified_ids_PixivOnly(file) ==
    IF file.exists
    THEN [ids |-> [NoIds EXCEPT !["pixiv"] = file.ids["pixiv"]],
          first |-> (file.ids["pixiv"] = {} /\ file.ids["twitter"] = {})]
    ELSE [ids |-> NoIds, first |-> TRUE]

\* DiscordNotifier.load_notified_ids: the sets and the first-run flag
load_notified_ids(file) ==
    IF file.exists
    THEN [ids |-> [NoIds EXCEPT !["pixiv"] = file.ids["pixiv"],
                                !["twitter"] = file.ids["twitter"]],
          first |-> (file.ids["pixiv"] = {} /\ file.ids["twitter"] = {})]
    ELSE [ids |-> NoIds, first |-> TRUE]

\* PatreonNotifier.load_notified_ids
patreon_load_notified_ids(file) ==
    IF file.exists
    THEN [ids |-> [NoIds EXCEPT !["patreon"] = file.ids["patreon"]],
          first |-> (file.ids["patreon"] = {})]
    ELSE [ids |-> NoIds, first |-> TRUE]

\* save_notified_ids that merges the memory into the lists on disk
save_notified_ids_Merge(st) ==
    [st EXCEPT !.file = [exists |-> TRUE,
                         ids |-> [NoIds EXCEPT !["pixiv"] = st.file.ids["pixiv"] \cup st.ids["pixiv"],
                                               !["twitter"] = st.file.ids["twitter"] \cup st.ids["twitter"]]],
               !.log = Append(@, Event("save", "discord", 0, "file", TRUE))]

\* DiscordNotifier.save_notified_ids: the file is rewritten from memory
save_notified_ids(st) ==
    [st EXCEPT !.file = [exists |-> TRUE,
                         ids |-> [NoIds EXCEPT !["pixiv"] = st.ids["pixiv"],
                                               !["twitter"] = st.ids["twitter"]]],
               !.log = Append(@, Event("save", "discord", 0, "file", TRUE))]

\* PatreonNotifier.save_notified_ids
patreon_save_notified_ids(st) ==
    [st EXCEPT !.file = [exists |-> TRUE,
                         ids |-> [NoIds EXCEPT !["patreon"] = st.ids["patreon"]]],
               !.log = Append(@, Event("save", "patreon", 0, "file", TRUE))]

(******************************** notifier *********************************)
\* send_discord_notification that succeeds without a webhook
send_discord_notification_NoWebhookNeeded(webhook_set, accepted) == accepted

\* send_discord_notification: True only when the POST got a 2xx answer; a
\* webhook that is not configured makes requests.post raise, which is caught
send_discord_notification(webhook_set, accepted) == webhook_set /\ accepted

\* NotifyStep with the identifier marked seen before the delivery attempt and
\* kept whatever the attempt returns
NotifyStep_MarkBeforeSend(i, new_posts, env, st) ==
    LET id == new_posts[i] IN
    IF env.first
    THEN [st EXCEPT !.ids[env.src] = @ \cup {id},
                    !.log = Append(@, Event("absorb", env.src, id, env.dest, TRUE))]
    ELSE LET sent == send_discord_notification(env.webhook, id \in env.ok)
             l1 == Append(st.log, Event("send", env.src, id, env.dest, sent))
             l2 == IF i < Len(new_posts)
                   THEN Append(l1, Event("sleep", env.src, NOTIFY_DELAY, env.dest, TRUE))
                   ELSE l1
         IN [st EXCEPT !.ids[env.src] = @ \cup {id}, !.log = l2]

\* NotifyStep with the test of the delivery result inverted
NotifyStep_MarkOnFailure(i, new_posts, env, st) ==
    LET id == new_posts[i] IN
    IF env.first
    THEN [st EXCEPT !.ids[env.src] = @ \cup {id},
                    !.log = Append(@, Event("absorb", env.src, id, env.dest, TRUE))]
    ELSE LET sent == send_discord_notification(env.webhook, id \in env.ok)
             l1 == Append(st.log, Event("send", env.src, id, env.dest, sent))
             l2 == IF i < Len(new_posts)
                   THEN Append(l1, Event("sleep", env.src, NOTIFY_DELAY, env.dest, TRUE))
                   ELSE l1
         IN [st EXCEPT !.ids[env.src] = IF ~sent THEN @ \cup {id} ELSE @,
                       !.log = l2]

\* NotifyStep with the first-run test made on the sets as they are now, not
\* on the flag computed at load
NotifyStep_RecomputeFirst(i, new_posts, env, st) ==
    LET id == new_posts[i]
        first == env.first /\ st.ids = NoIds
    IN
    IF first
    THEN [st EXCEPT !.ids[env.src] = @ \cup {id},
                    !.log = Append(@, Event("absorb", env.src, id, env.dest, TRUE))]
    ELSE LET sent == send_discord_notification(env.webhook, id \in env.ok)
             l1 == Append(st.log, Event("send", env.src, id, env.dest, sent))
             l2 == IF i < Len(new_posts)
                   THEN Append(l1, Event("sleep", env.src, NOTIFY_DELAY, env.dest, TRUE))
                   ELSE l1
         IN [st EXCEPT !.ids[env.src] = IF sent THEN @ \cup {id} ELSE @,
                       !.log = l2]

\* NotifyStep that posts a second time when the first POST fails
NotifyStep_RetryOnce(i, new_posts, env, st) ==
    LET id == new_posts[i] IN
    IF env.first
    THEN [st EXCEPT !.ids[env.src] = @ \cup {id},
                    !.log = Append(@, Event("absorb", env.src, id, env.dest, TRUE))]
    ELSE LET sent == send_discord_notification(env.webhook, id \in env.ok)
             l1 == Append(st.log, Event("send", env.src, id, env.dest, sent))
             l2 == IF sent THEN l1
                   ELSE Append(l1, Event("send", env.src, id, env.dest, sent))
             l3 == IF i < Len(new_posts)
                   THEN Append(l2, Event("sleep", env.src, NOTIFY_DELAY, env.dest, TRUE))
                   ELSE l2
         IN [st EXCEPT !.ids[env.src] = IF sent THEN @ \cup {id} ELSE @,
                       !.log = l3]

\* NotifyStep that sleeps after every delivery attempt, the last one included
NotifyStep_SleepAfterLast(i, new_posts, env, st) ==
    LET id == new_posts[i] IN
    IF env.first
    THEN [st EXCEPT !.ids[env.src] = @ \cup {id},
                    !.log = Append(@, Event("absorb", env.src, id, env.dest, TRUE))]
    ELSE LET sent == send_discord_notification(env.webhook, id \in env.ok)
             l1 == Append(st.log, Event("send", env.src, id, env.dest, sent))
             l2 == Append(l1, Event("sleep", env.src, NOTIFY_DELAY, env.dest, TRUE))
         IN [st EXCEPT !.ids[env.src] = IF sent THEN @ \cup {id} ELSE @,
                       !.log = l2]

\* NotifyStep that does not mark a delivered post as seen
NotifyStep_ForgetSent(i, new_posts, env, st) ==
    LET id == new_posts[i] IN
    IF env.first
    THEN [st EXCEPT !.ids[env.src] = @ \cup {id},
                    !.log = Append(@, Event("absorb", env.src, id, env.dest, TRUE))]
    ELSE LET sent == send_discord_notification(env.webhook, id \in env.ok)
             l1 == Append(st.log, Event("send", env.src, id, env.dest, sent))
             l2 == IF i < Len(new_posts)
                   THEN Append(l1, Event("sleep", env.src, NOTIFY_DELAY, env.dest, TRUE))
                   ELSE l1
         IN [st EXCEPT !.log = l2]

\* body of the notification loop over new_posts (the same in all checkers):
\* first run: mark seen; otherwise send, mark seen on success, then sleep
\* unless this was the last new post.
\* env = [src, dest, webhook, ok, first]; st = [ids, log, file]
NotifyStep(i, new_posts, env, st) ==
    LET id == new_posts[i] IN
    IF env.first
    THEN [st EXCEPT !.ids[env.src] = @ \cup {id},
                    !.log = Append(@, Event("absorb", env.src, id, env.dest, TRUE))]
    ELSE LET sent == send_discord_notification(env.webhook, id \in env.ok)
             l1 == Append(st.log, Event("send", env.src, id, env.dest, sent))
             l2 == IF i < Len(new_posts)
                   THEN Append(l1, Event("sleep", env.src, NOTIFY_DELAY, env.dest, TRUE))
                   ELSE l1
         IN [st EXCEPT !.ids[env.src] = IF sent THEN @ \cup {id} ELSE @,
                       !.log = l2]

RECURSIVE NotifyLoop(_, _, _, _)
\* for i, post in enumerate(new_posts): ...
NotifyLoop(i, new_posts, env, st) ==
    IF i > Len(new_posts) THEN st
    ELSE NotifyLoop(i + 1, new_posts, env, NotifyStep(i, new_posts, env, st))

\* the "fetched" entries of the trace, one per post of the window, in order
FetchedEvents(src, ids) == [k \in 1..Len(ids) |-> Event("fetched", src, ids[k], "none", TRUE)]

\* NewPosts with the new posts taken from the end of the window
NewPosts_Reversed(window, seen) ==
    LET new == SelectSeq(window, LAMBDA id : id \notin seen)
    IN [k \in 1..Len(new) |-> new[Len(new) - k + 1]]

\* NewPosts that stops at the first new post
NewPosts_OnlyFirst(window, seen) == Take(SelectSeq(window, LAMBDA id : id \notin seen), 1)

\* NewPosts without the test against the seen-set
NewPosts_All(window, seen) == window

\* new_posts: the posts of the window whose id is not in the seen-set
NewPosts(window, seen) == SelectSeq(window, LAMBDA id : id \notin seen)

(****************************** Pixiv checker ******************************)
\* check_pixiv_new_posts that saves in the exception handler too
check_pixiv_new_posts_SaveOnError(outcome, ok, illusts_up, config, first, st) ==
    IF outcome = "error"
    THEN save_notified_ids([st EXCEPT !.log = Append(@, Event("fetchfail", "pixiv", 0, "none", FALSE))])
    ELSE IF outcome = "nodata"
    THEN [st EXCEPT !.log = Append(@, Event("nodata", "pixiv", 0, "none", FALSE))]
    ELSE LET illusts == Take(illusts_up, PIXIV_LATEST)
             new_posts == NewPosts(illusts, st.ids["pixiv"])
             env == [src |-> "pixiv", dest |-> "pixiv", webhook |-> config.pixiv_webhook,
                     ok |-> ok, first |-> first]
             st1 == [st EXCEPT !.log = @ \o FetchedEvents("pixiv", illusts)]
         IN IF new_posts # << >>
            THEN save_notified_ids(NotifyLoop(1, new_posts, env, st1))
            ELSE st1

\* check_pixiv_new_posts; outcome is what user_illusts did ("ok", "nodata":
\* no result or no 'illusts' key, "error": it raised), ok the ids the webhook
\* accepts
check_pixiv_new_posts(outcome, ok, illusts_up, config, first, st) ==
    IF outcome = "error"
    THEN [st EXCEPT !.log = Append(@, Event("fetchfail", "pixiv", 0, "none", FALSE))]
    ELSE IF outcome = "nodata"
    THEN [st EXCEPT !.log = Append(@, Event("nodata", "pixiv", 0, "none", FALSE))]
    ELSE LET illusts == Take(illusts_up, PIXIV_LATEST)
             new_posts == NewPosts(illusts, st.ids["pixiv"])
             env == [src |-> "pixiv", dest |-> "pixiv", webhook |-> config.pixiv_webhook,
                     ok |-> ok, first |-> first]
             st1 == [st EXCEPT !.log = @ \o FetchedEvents("pixiv", illusts)]
         IN IF new_posts # << >>
            THEN save_notified_ids(NotifyLoop(1, new_posts, env, st1))
            ELSE st1

(***************************** Twitter checker *****************************)
\* one iteration of the loop of check_twitter_new_posts, for the i-th
\* configured account (1-based here); outcome "nodata" is a user that was not
\* found or an answer without data
check_twitter_account(i, outcome, ok, tweets_up, config, first, st) ==
    LET username == config.twitter_usernames[i]
        st0 == IF i > 1
               THEN [st EXCEPT !.log = Append(@, Event("sleep", "twitter", ACCOUNT_DELAY, "none", TRUE))]
               ELSE st
        st1 == [st0 EXCEPT !.log = Append(@, Event("check", "twitter", username, "none", TRUE))]
    IN
    IF outcome = "error"
    THEN [st1 EXCEPT !.log = Append(@, Event("fetchfail", "twitter", username, "none", FALSE))]
    ELSE IF outcome = "nodata"
    THEN [st1 EXCEPT !.log = Append(@, Event("nodata", "twitter", username, "none", FALSE))]
    ELSE LET window == Take(tweets_up[username], TWITTER_LATEST)
             new_posts == NewPosts(window, st1.ids["twitter"])
             env == [src |-> "twitter", dest |-> "twitter", webhook |-> config.twitter_webhook,
                     ok |-> ok, first |-> first]
             st2 == [st1 EXCEPT !.log = @ \o FetchedEvents("twitter", window)]
         IN IF new_posts # << >>
            THEN save_notified_ids(NotifyLoop(1, new_posts, env, st2))
            ELSE st2

(***************************** Patreon checker *****************************)
\* the page the pagination loop of fetch_latest_posts ends on: all_posts is
\* overwritten by every page, so only the last page of the listing is kept
LastPage(posts) ==
    IF posts = << >> THEN << >>
    ELSE SubSeq(posts, ((Len(posts) - 1) \div PAGE_COUNT) * PAGE_COUNT + 1, Len(posts))

RECURSIVE SortByIdDesc(_)
\* all_posts.sort(key=lambda x: int(x['id']), reverse=True)
SortByIdDesc(posts) ==
    IF posts = << >> THEN << >>
    ELSE LET top == CHOOSE k \in 1..Len(posts) :
                        \A j \in 1..Len(posts) : posts[j].id <= posts[k].id
             rest == [j \in 1..(Len(posts) - 1) |-> IF j < top THEN posts[j] ELSE posts[j + 1]]
         IN <<posts[top]>> \o SortByIdDesc(rest)

\* fetch_latest_posts: last page, newest id first, the latest 10
fetch_latest_posts(posts) == Take(SortByIdDesc(LastPage(posts)), PATREON_LATEST)

\* pub_time.astimezone(KST): minute of the day in Korea
ToKST(utc_minute) == (utc_minute + KST) % DAY

\* pub_kst.hour == 20 and pub_kst.minute in [30, 31], when published_at is set
IsScheduledSlot(published_at) ==
    /\ published_at # NoTime
    /\ ToKST(published_at) \div 60 = SKIP_HOUR
    /\ ToKST(published_at) % 60 \in {SKIP_MINUTE_A, SKIP_MINUTE_B}

\* IsPublic that takes every post that is not Gourmet as public
IsPublic_Always(tiers, config) == TRUE

\* the tier tests of the classification
IsGourmet(tiers, config) ==
    config.target_tier_id # NoTierId /\ config.target_tier_id \in tiers

IsPublic(tiers, config) ==
    tiers = {} \/ (config.lowest_tier_id # NoTierId /\ config.lowest_tier_id \in tiers)

\* ClassifyStep with the public test made before the Gourmet test
ClassifyStep_PublicFirst(post, config, acc) ==
    IF post.id \in acc.st.ids["patreon"] THEN acc
    ELSE IF IsScheduledSlot(post.published_at)
    THEN [acc EXCEPT !.st.ids["patreon"] = @ \cup {post.id},
                     !.st.log = Append(@, Event("skip", "patreon", post.id, "none", TRUE))]
    ELSE IF IsPublic(post.tiers, config)
    THEN [acc EXCEPT !.public_posts = Append(@, post.id)]
    ELSE IF IsGourmet(post.tiers, config)
    THEN [acc EXCEPT !.gourmet_posts = Append(@, post.id)]
    ELSE acc

\* body of the classification loop, for one fetched post;
\* acc = [st, gourmet_posts, public_posts]
ClassifyStep(post, config, acc) ==
    IF post.id \in acc.st.ids["patreon"] THEN acc
    ELSE IF IsScheduledSlot(post.published_at)
    THEN [acc EXCEPT !.st.ids["patreon"] = @ \cup {post.id},
                     !.st.log = Append(@, Event("skip", "patreon", post.id, "none", TRUE))]
    ELSE IF IsGourmet(post.tiers, config)
    THEN [acc EXCEPT !.gourmet_posts = Append(@, post.id)]
    ELSE IF IsPublic(post.tiers, config)
    THEN [acc EXCEPT !.public_posts = Append(@, post.id)]
    ELSE acc

RECURSIVE Classify(_, _, _, _)
\* for post in posts: ...
Classify(i, posts, config, acc) ==
    IF i > Len(posts) THEN acc
    ELSE Classify(i + 1, posts, config, ClassifyStep(posts[i], config, acc))

\* the two notification blocks and the final save of check_new_posts
NotifyTiers(acc, ok, config, first) ==
    LET genv == [src |-> "patreon", dest |-> "gourmet", webhook |-> config.webhook_gourmet,
                 ok |-> ok, first |-> first]
        penv == [src |-> "patreon", dest |-> "public", webhook |-> config.webhook_public,
                 ok |-> ok, first |-> first]
        st1 == IF acc.gourmet_posts # << >> /\ config.webhook_gourmet
               THEN NotifyLoop(1, acc.gourmet_posts, genv, acc.st)
               ELSE acc.st
        st2 == IF acc.public_posts # << >> /\ config.webhook_public
               THEN NotifyLoop(1, acc.public_posts, penv, st1)
               ELSE st1
    IN IF acc.gourmet_posts # << >> \/ acc.public_posts # << >>
       THEN patreon_save_notified_ids(st2)
       ELSE st2

\* PatreonNotifier.check_new_posts; outcome is what the campaign API did
check_new_posts(outcome, ok, posts_up, config, first, st) ==
    IF ~config.access_token \/ ~config.campaign_id
    THEN [st EXCEPT !.log = Append(@, Event("unconfigured", "patreon", 0, "none", FALSE))]
    ELSE IF outcome = "error"
    THEN [st EXCEPT !.log = Append(@, Event("fetchfail", "patreon", 0, "none", FALSE))]
    ELSE LET posts == fetch_latest_posts(posts_up)
             ids == [k \in 1..Len(posts) |-> posts[k].id]
             st1 == [st EXCEPT !.log = @ \o FetchedEvents("patreon", ids)]
             acc == Classify(1, posts, config,
                             [st |-> st1, gourmet_posts |-> << >>, public_posts |-> << >>])
         IN NotifyTiers(acc, ok, config, first)

\* run_after_pixiv with the exception of the fetch leaving the checker and
\* ending the process
run_after_pixiv_Raise(outcome) == IF outcome = "error" THEN "done" ELSE "twitter"

\* run(): check_pixiv_new_posts catches every exception of its body, so it
\* returns whatever the fetch did and check_twitter_new_posts is called next
run_after_pixiv(outcome) == "twitter"

\* next_account that checks the same account again after an exception
next_account_Repeat(i, outcome, accounts) == IF outcome = "error" THEN i ELSE i + 1

\* next_account with the exception of an account leaving the loop
next_account_AbortOnError(i, outcome, accounts) ==
    IF outcome = "error" THEN accounts + 1 ELSE i + 1

\* the loop of check_twitter_new_posts goes on to the next account whatever
\* the iteration did: the try/except is inside the for loop
next_account(i, outcome, accounts) == i + 1

RECURSIVE check_twitter_new_posts(_, _, _, _, _, _)
\* check_twitter_new_posts from the i-th account on, every lookup and fetch
\* answering
check_twitter_new_posts(i, ok, tweets_up, config, first, st) ==
    IF i > Len(config.twitter_usernames) THEN st
    ELSE check_twitter_new_posts(next_account(i, "ok", Len(config.twitter_usernames)),
                                 ok, tweets_up, config, first,
                                 check_twitter_account(i, "ok", ok, tweets_up, config, first, st))

\* __init__ and run() of one whole invocation whose fetches all answer, on the
\* state file as it is: the file it leaves and the trace of what it did
whole_run(ok, illusts_up, tweets_up, posts_up, config, file) ==
    IF config.prog = "discord"
    THEN LET ld == load_notified_ids(file)
             st == [ids |-> ld.ids, log |-> << >>, file |-> file]
         IN [first |-> ld.first,
             st |-> check_twitter_new_posts(1, ok, tweets_up, config, ld.first,
                        check_pixiv_new_posts("ok", ok, illusts_up, config, ld.first, st))]
    ELSE LET ld == patreon_load_notified_ids(file)
             st == [ids |-> ld.ids, log |-> << >>, file |-> file]
         IN [first |-> ld.first,
             st |-> check_new_posts("ok", ok, posts_up, config, ld.first, st)]

(************************* reading the trace of a run **********************)
\* the <<source, id>> of the entries of a trace with the given op and result
Keys(trace, op, ok) ==
    {<<trace[k].src, trace[k].id>> : k \in {j \in 1..Len(trace) : trace[j].op = op /\ trace[j].ok = ok}}

\* the <<source, id, webhook>> of the deliveries that succeeded
Deliveries(trace) ==
    {<<trace[k].src, trace[k].id, trace[k].dest>> :
        k \in {j \in 1..Len(trace) : trace[j].op = "send" /\ trace[j].ok}}

\* the positions of the entries about one post
Positions(trace, op, src, id) ==
    {k \in 1..Len(trace) : trace[k].op = op /\ trace[k].src = src /\ trace[k].id = id}

\* no fetch failed and no delivery failed in the run
CleanRun(trace) ==
    \A k \in 1..Len(trace) :
        /\ trace[k].op \notin {"fetchfail", "nodata"}
        /\ trace[k].op = "send" => trace[k].ok

(***************************** initial states ******************************)
\* the seen-set left by an earlier deployment: one old post (id 0), absorbed by
\* a first run long ago and no longer listed upstream
Baseline(prog) ==
    IF prog = "discord" THEN [NoIds EXCEPT !["pixiv"] = {0}]
    ELSE [NoIds EXCEPT !["patreon"] = {0}]

\* a fresh deployment (no state file, or one holding empty lists) or one with
\* the baseline of an earlier first run; nothing new published upstream yet;
\* no process running
Init ==
    /\ cfg \in DiscordConfigs \cup PatreonConfigs
    /\ pixiv_illusts = << >>
    /\ tweets = [a \in Accounts |-> << >>]
    /\ patreon_posts = << >>
    /\ notified_file \in {[exists |-> e, ids |-> NoIds] : e \in BOOLEAN}
                         \cup {[exists |-> TRUE, ids |-> Baseline(cfg.prog)]}
    /\ notified_ids = NoIds
    /\ is_first_run = FALSE
    /\ pc = "idle"
    /\ account_i = 0
    /\ log = << >>
    /\ loaded = NoIds
    /\ delivered = {}
    /\ absorbed = {<<src, 0>> : src \in {x \in Sources : 0 \in notified_file.ids[x]}}
    /\ suppressed = {}
    /\ prev_failed = {}
    /\ redelivered = {}
    /\ at_first = [taken |-> FALSE, ids |-> {}]
    /\ overlap = "no"
    /\ since_last = "changed"

(************************** upstream (environment) *************************)
\* number of posts upstream of the Discord notifier
DiscordPosts == Len(pixiv_illusts) + Len(tweets[1]) + Len(tweets[2])

\* the artist publishes an illustration
PublishPixiv ==
    /\ pc = "idle" /\ cfg.prog = "discord"
    /\ DiscordPosts < MaxPosts
    /\ pixiv_illusts' = <<Len(pixiv_illusts) + 1>> \o pixiv_illusts
    /\ since_last' = "changed"
    /\ UNCHANGED <<cfg, tweets, patreon_posts, notified_file, process, history>>

\* a monitored account tweets
PublishTweet ==
    \E a \in Accounts :
        /\ pc = "idle" /\ cfg.prog = "discord"
        /\ a \in Range(cfg.twitter_usernames)
        /\ DiscordPosts < MaxPosts
        /\ tweets' = [tweets EXCEPT ![a] = <<TweetId(a, Len(@) + 1)>> \o @]
        /\ since_last' = "changed"
        /\ UNCHANGED <<cfg, pixiv_illusts, patreon_posts, notified_file, process, history>>

\* the campaign publishes a post
PublishPatreon ==
    \E kind \in PostKinds :
        /\ pc = "idle" /\ cfg.prog = "patreon"
        /\ Len(patreon_posts) < MaxPatreon
        /\ patreon_posts' = Append(patreon_posts,
                                   [id |-> Len(patreon_posts) + 1, tiers |-> kind[1],
                                    published_at |-> kind[2]])
        /\ since_last' = "changed"
        /\ UNCHANGED <<cfg, pixiv_illusts, tweets, notified_file, process, history>>

(******************************** processes ********************************)
\* the deliveries of a piece of trace for posts that were delivered before
Again(trace) ==
    {k \in Keys(trace, "send", TRUE) : \E d \in delivered : d[1] = k[1] /\ d[2] = k[2]}

\* what the trace of the run so far adds to the history
Record(trace) ==
    /\ delivered' = delivered \cup Deliveries(trace)
    /\ absorbed' = absorbed \cup Keys(trace, "absorb", TRUE)
    /\ suppressed' = suppressed \cup {<<k[1], k[2], is_first_run>> : k \in Keys(trace, "skip", TRUE)}
    /\ redelivered' = redelivered \cup Again(SubSeq(trace, Len(log) + 1, Len(trace)))

\* the <<source, id>> in the latest-K windows of the sources of the script
Windows ==
    IF cfg.prog = "discord"
    THEN {<<"pixiv", id>> : id \in Range(Take(pixiv_illusts, PIXIV_LATEST))}
         \cup {<<"twitter", id>> :
                 id \in UNION {Range(Take(tweets[a], TWITTER_LATEST)) : a \in Range(cfg.twitter_usernames)}}
    ELSE {<<"patreon", p.id>> : p \in Range(fetch_latest_posts(patreon_posts))}

\* a process starts: __init__ loads the state file
Start(ld, next) ==
    /\ pc = "idle"
    /\ notified_ids' = ld.ids
    /\ is_first_run' = ld.first
    /\ loaded' = notified_file.ids
    /\ log' = <<Event("load", cfg.prog, 0, "file", notified_file.exists)>>
    /\ pc' = next
    /\ account_i' = 0
    /\ UNCHANGED <<cfg, upstream, notified_file, delivered, absorbed, suppressed,
                   prev_failed, redelivered, overlap, since_last>>

\* DiscordNotifier()
DiscordInit ==
    /\ cfg.prog = "discord"
    /\ Start(load_notified_ids(notified_file), "pixiv")
    /\ UNCHANGED at_first

\* PatreonNotifier()
PatreonInit ==
    /\ cfg.prog = "patreon"
    /\ Start(patreon_load_notified_ids(notified_file), "patreon")
    /\ UNCHANGED at_first

\* what the start of a process adds to at_first: the windows, if it is the
\* first process ever and its run is a first run
FirstWindows(ld) ==
    IF at_first.taken THEN at_first
    ELSE [taken |-> TRUE, ids |-> IF ld.first THEN Windows ELSE {}]

\* DiscordNotifier() and PatreonNotifier(), with at_first kept
DiscordInitWatched ==
    /\ cfg.prog = "discord"
    /\ Start(load_notified_ids(notified_file), "pixiv")
    /\ at_first' = FirstWindows(load_notified_ids(notified_file))

PatreonInitWatched ==
    /\ cfg.prog = "patreon"
    /\ Start(patreon_load_notified_ids(notified_file), "patreon")
    /\ at_first' = FirstWindows(patreon_load_notified_ids(notified_file))

\* the state a checker works on and leaves
Before == [ids |-> notified_ids, log |-> log, file |-> notified_file]

After(st) ==
    /\ notified_ids' = st.ids
    /\ log' = st.log
    /\ notified_file' = st.file
    /\ Record(st.log)
    /\ UNCHANGED <<cfg, upstream, is_first_run, loaded, prev_failed, at_first, overlap, since_last>>

FetchOutcomes == {"ok", "nodata", "error"}

\* the posts whose delivery the webhook may be asked for: the unseen ones of
\* the window, when the fetch succeeds in a run that is not the first
Askable(outcome, window_ids, seen) ==
    IF outcome = "ok" /\ ~is_first_run THEN window_ids \ seen ELSE {}

\* run(): self.check_pixiv_new_posts()
CheckPixiv ==
    /\ pc = "pixiv"
    /\ \E outcome \in FetchOutcomes :
       \E ok \in SUBSET Askable(outcome, Range(Take(pixiv_illusts, PIXIV_LATEST)),
                                notified_ids["pixiv"]) :
           /\ After(check_pixiv_new_posts(outcome, ok, pixiv_illusts, cfg, is_first_run, Before))
           /\ pc' = run_after_pixiv(outcome)
    /\ account_i' = 1

\* run(): self.check_twitter_new_posts(), one account
CheckTwitter ==
    /\ pc = "twitter"
    /\ account_i <= Len(cfg.twitter_usernames)
    /\ \E outcome \in FetchOutcomes :
       /\ \E ok \in SUBSET Askable(outcome,
                                Range(Take(tweets[cfg.twitter_usernames[account_i]], TWITTER_LATEST)),
                                notified_ids["twitter"]) :
           After(check_twitter_account(account_i, outcome, ok, tweets, cfg, is_first_run, Before))
       /\ account_i' = next_account(account_i, outcome, Len(cfg.twitter_usernames))
    /\ pc' = "twitter"

\* run() of DiscordNotifier: the loop over the accounts is over, "Check complete"
DiscordDone ==
    /\ pc = "twitter"
    /\ account_i > Len(cfg.twitter_usernames)
    /\ pc' = "done"
    /\ log' = Append(log, Event("complete", "discord", 0, "none", TRUE))
    /\ UNCHANGED <<cfg, upstream, notified_file, notified_ids, is_first_run, account_i,
                   loaded, history, since_last>>

\* PatreonNotifier.run(): self.check_new_posts(), "Check complete"
CheckPatreon ==
    /\ pc = "patreon"
    /\ \E outcome \in {"ok", "error"} :
       \E ok \in SUBSET Askable(outcome,
                                {p.id : p \in Range(fetch_latest_posts(patreon_posts))},
                                notified_ids["patreon"]) :
           LET st == check_new_posts(outcome, ok, patreon_posts, cfg, is_first_run, Before)
           IN After([st EXCEPT !.log = Append(@, Event("complete", "patreon", 0, "none", TRUE))])
    /\ pc' = "done"
    /\ account_i' = 0

\* the process exits: its memory is gone, the state file stays
Exit ==
    /\ pc = "done"
    /\ pc' = "idle"
    /\ notified_ids' = NoIds
    /\ is_first_run' = FALSE
    /\ account_i' = 0
    /\ log' = << >>
    /\ loaded' = NoIds
    /\ prev_failed' = Keys(log, "send", FALSE)
    /\ since_last' = IF CleanRun(log) THEN "clean" ELSE "failed"
    /\ overlap' = IF overlap = "now" THEN "past" ELSE overlap
    /\ UNCHANGED <<cfg, upstream, notified_file, delivered, absorbed, suppressed, redelivered,
                   at_first>>

Next ==
    \/ PublishPixiv
    \/ PublishTweet
    \/ PublishPatreon
    \/ DiscordInit
    \/ CheckPixiv
    \/ CheckTwitter
    \/ DiscordDone
    \/ PatreonInit
    \/ CheckPatreon
    \/ Exit

Spec == Init /\ [][Next]_vars

\* every identifier upstream
AllIds ==
    Range(pixiv_illusts) \cup Range(tweets[1]) \cup Range(tweets[2])
    \cup {p.id : p \in Range(patreon_posts)}

\* a second invocation of the same script (started by the scheduler while the
\* first is still running) loads the file, runs and exits between two steps
\* of the running process; its fetches answer and the webhook accepts what it
\* sends.  At most one such invocation per behaviour.
OverlappingRun ==
    /\ pc \in {"pixiv", "twitter", "patreon"}
    /\ overlap = "no"
    /\ LET other == whole_run(AllIds, pixiv_illusts, tweets, patreon_posts, cfg, notified_file)
           trace == other.st.log
       IN /\ notified_file' = other.st.file
          /\ delivered' = delivered \cup Deliveries(trace)
          /\ absorbed' = absorbed \cup Keys(trace, "absorb", TRUE)
          /\ suppressed' = suppressed \cup {<<k[1], k[2], other.first>> : k \in Keys(trace, "skip", TRUE)}
          /\ redelivered' = redelivered \cup Again(trace)
    /\ overlap' = "now"
    /\ UNCHANGED <<cfg, upstream, process, prev_failed, at_first, since_last>>

\* the upstream actions within the smaller bounds
PublishPixivFew == PublishPixiv /\ DiscordPosts < MaxFewPosts

PublishTweetFew == PublishTweet /\ DiscordPosts < MaxFewPosts

PublishPatreonFew == PublishPatreon /\ Len(patreon_posts) < MaxFewPatreon

RaceNext ==
    \/ PublishPixivFew
    \/ PublishTweetFew
    \/ PublishPatreonFew
    \/ DiscordInit
    \/ CheckPixiv
    \/ CheckTwitter
    \/ DiscordDone
    \/ PatreonInit
    \/ CheckPatreon
    \/ Exit
    \/ OverlappingRun

\* the runs of a notifier with no protection against a second invocation
RaceSpec == Init /\ [][RaceNext]_vars

FirstRunNext ==
    \/ PublishPixivFew
    \/ PublishTweetFew
    \/ PublishPatreonFew
    \/ DiscordInitWatched
    \/ CheckPixiv
    \/ CheckTwitter
    \/ DiscordDone
    \/ PatreonInitWatched
    \/ CheckPatreon
    \/ Exit

\* the runs of a notifier, with the windows at the first start remembered
FirstRunSpec == Init /\ [][FirstRunNext]_vars

\* the upstream actions of the specification with fairness
PublishPixivRun == PublishPixiv /\ DiscordPosts < MaxRunPosts

PublishTweetRun == PublishTweet /\ DiscordPosts < MaxRunPosts

\* the Discord notifier alone, run after run
DiscordNext ==
    \/ PublishPixivRun
    \/ PublishTweetRun
    \/ DiscordInit
    \/ CheckPixiv
    \/ CheckTwitter
    \/ DiscordDone
    \/ Exit

\* a deployment of the Discord notifier
DiscordStart == Init /\ cfg.prog = "discord"

\* the runs of the Discord notifier with the scheduling of a process: once
\* started it is scheduled until it exits, and every network call of a
\* checker returns or raises (nothing hangs)
DiscordRunSpec ==
    /\ DiscordStart
    /\ [][DiscordNext]_vars
    /\ WF_vars(CheckPixiv) /\ WF_vars(CheckTwitter) /\ WF_vars(DiscordDone)

\* the whole state is well formed
TypeOK ==
    /\ cfg \in DiscordConfigs \cup PatreonConfigs
    /\ pc \in {"idle", "pixiv", "twitter", "patreon", "done"}
    /\ is_first_run \in BOOLEAN
    /\ notified_file.exists \in BOOLEAN
    /\ DOMAIN notified_ids = Sources
    /\ since_last \in {"changed", "clean", "failed"}
    /\ overlap \in {"no", "now", "past"}

(***************************************************************************)
(*                              The claims                                 *)
(***************************************************************************)
\* the persisted seen-set of a source
Persisted(src) == notified_file.ids[src]

\* the ids of a source that were delivered, absorbed by a first run, skipped
DeliveredIds(src) == {d[2] : d \in {x \in delivered : x[1] = src}}
AbsorbedIds(src) == {a[2] : a \in {x \in absorbed : x[1] = src}}
SuppressedIds(src) == {a[2] : a \in {x \in suppressed : x[1] = src}}
\* the ids a first run marked seen without notifying, on either path
FirstRunIds(src) == AbsorbedIds(src) \cup {a[2] : a \in {x \in suppressed : x[1] = src /\ x[3]}}

\* a process is alive (its memory exists)
Running == pc # "idle"

\* the run has finished all its checks
RunOver == pc = "done"

\* the entries of the trace of the current run
Entries == {log[k] : k \in 1..Len(log)}

\* the deliveries the current run attempted, as <<source, id>>
Attempted == Keys(log, "send", TRUE) \cup Keys(log, "send", FALSE)

\* every webhook, credential and tier id of the script is set
FullyConfigured ==
    IF cfg.prog = "discord" THEN cfg.pixiv_webhook /\ cfg.twitter_webhook
    ELSE Missing(cfg) = 0

\* C1 as stated: an identifier is in a seen-set (persisted, or in the memory
\* of the running process) if and only if it was successfully delivered to a
\* webhook or absorbed during a first run (whatever path of the first run
\* marked it).  Read in a fully configured environment.
C1_Original ==
    FullyConfigured =>
    \A src \in Sources :
        LET da == DeliveredIds(src) \cup AbsorbedIds(src) IN
        /\ da \subseteq Persisted(src)
        /\ Persisted(src) \subseteq DeliveredIds(src) \cup FirstRunIds(src)
        /\ Running => /\ da \subseteq notified_ids[src]
                      /\ notified_ids[src] \subseteq DeliveredIds(src) \cup FirstRunIds(src)

\* C1 amended: every identifier in a seen-set was successfully delivered,
\* absorbed during a first run, or marked seen as a scheduled post of the
\* Patreon maintenance window; every delivered or absorbed identifier is in the
\* persisted seen-set and in the memory of the running process; an identifier
\* whose delivery was attempted and failed is not added.
C1_SeenIffDeliveredAbsorbedOrSkipped ==
    \A src \in Sources :
        LET da == DeliveredIds(src) \cup AbsorbedIds(src) IN
        /\ da \subseteq Persisted(src)
        /\ Persisted(src) \subseteq da \cup SuppressedIds(src)
        /\ Running => /\ da \subseteq notified_ids[src]
                      /\ notified_ids[src] \subseteq da \cup SuppressedIds(src)

\* C1 witness: a later run delivered a post after a first run absorbed one,
\* both are persisted, and a delivery of that run failed
C1_Witness ==
    /\ RunOver
    /\ \E src \in Sources :
          /\ DeliveredIds(src) # {} /\ AbsorbedIds(src) # {}
          /\ DeliveredIds(src) \cup AbsorbedIds(src) \subseteq Persisted(src)
          /\ Keys(log, "send", FALSE) # {}

\* C2 (retry on failure), read when a run is over: (1) an identifier whose
\* delivery failed in this run, which was not a first run, is absent from
\* the persisted seen-set; (2) an identifier whose delivery failed in the
\* previous run and that is in a window this run fetched is attempted again;
\* (3) an identifier whose delivery succeeded in this run is persisted.
C2_RetryOnFailure ==
    RunOver =>
        /\ \A k \in Keys(log, "send", FALSE) : k[2] \notin Persisted(k[1])
        /\ \A k \in prev_failed : k \in Keys(log, "fetched", TRUE) => k \in Attempted
        /\ \A k \in Keys(log, "send", TRUE) : k[2] \in Persisted(k[1])

\* C2 witness: a delivery that failed in the previous run was attempted again
\* in this run, succeeded, and the identifier is persisted
C2_Witness ==
    /\ RunOver
    /\ \E k \in prev_failed : k \in Keys(log, "send", TRUE) /\ k[2] \in Persisted(k[1])

\* C3 (a first run sends nothing): in a run that loaded an absent file or
\* empty lists, no delivery is attempted by any checker, and the flag stays
\* what the load computed even after identifiers were absorbed.
C3_FirstRunSendsNothing ==
    Running =>
        /\ is_first_run = (loaded = NoIds)
        /\ loaded = NoIds => Attempted = {}

\* C3 witness: a first run absorbed an illustration in the Pixiv checker and
\* then a tweet in the Twitter checker, without any delivery attempt
C3_Witness ==
    /\ RunOver /\ loaded = NoIds /\ Attempted = {}
    /\ \E a \in Keys(log, "absorb", TRUE) : a[1] = "pixiv"
    /\ \E a \in Keys(log, "absorb", TRUE) : a[1] = "twitter"

(************************ vocabulary of the Patreon claims ******************)
\* the post of the campaign with an id
PostOf(id) == CHOOSE p \in Range(patreon_posts) : p.id = id

\* the tier-set of the post contains the configured restricted (Gourmet) id
HasRestricted(p) == cfg.target_tier_id # NoTierId /\ cfg.target_tier_id \in p.tiers

\* the tier-set of the post contains the configured public (lowest) id
HasPublic(p) == cfg.lowest_tier_id # NoTierId /\ cfg.lowest_tier_id \in p.tiers

\* the tier-set is non-empty and contains neither configured id
MatchesNeither(p) == p.tiers # {} /\ ~HasRestricted(p) /\ ~HasPublic(p)

\* the publish time is 20:30 or 20:31 at UTC+9
InMaintenanceWindow(p) ==
    /\ p.published_at # NoTime
    /\ \E m \in {30, 31} : (p.published_at + 9 * 60) % (24 * 60) = 20 * 60 + m

\* the post is routed to a destination whose webhook is configured
RoutedToWebhook(p) ==
    /\ ~InMaintenanceWindow(p)
    /\ \/ HasRestricted(p) /\ cfg.webhook_gourmet
       \/ ~HasRestricted(p) /\ (p.tiers = {} \/ HasPublic(p)) /\ cfg.webhook_public

\* the delivery attempts of the current run for Patreon posts
PatreonSends == {e \in Entries : e.op = "send" /\ e.src = "patreon"}

\* C4 as stated: after a first run (state file absent or empty at load) every
\* fetched identifier is in the persisted seen-set.  Read in a fully
\* configured environment and for the posts outside the maintenance window.
C4_Original ==
    (FullyConfigured /\ RunOver /\ loaded = NoIds) =>
        \A k \in Keys(log, "fetched", TRUE) :
            (k[1] = "patreon" => ~InMaintenanceWindow(PostOf(k[2])))
                => k[2] \in Persisted(k[1])

\* C4 amended: after a first run every fetched Pixiv and Twitter identifier,
\* and every fetched Patreon identifier of a post outside the maintenance
\* window that is routed to a tier whose webhook is configured, is in the
\* persisted seen-set.
C4_FirstRunAbsorbsRouted ==
    (RunOver /\ loaded = NoIds) =>
        \A k \in Keys(log, "fetched", TRUE) :
            (k[1] \in {"pixiv", "twitter"} \/ RoutedToWebhook(PostOf(k[2])))
                => k[2] \in Persisted(k[1])

\* C4 witness: a first run fetched two posts of one source and persisted both
C4_Witness ==
    /\ RunOver /\ loaded = NoIds
    /\ \E src \in Sources :
          /\ Cardinality({k \in Keys(log, "fetched", TRUE) : k[1] = src}) = 2
          /\ \A k \in Keys(log, "fetched", TRUE) : k[2] \in Persisted(k[1])

\* C5 as stated: a run after which upstream published nothing is followed by a
\* run that attempts no delivery and leaves the persisted seen-sets as loaded.
\* Read in a fully configured environment.
C5_Original ==
    (FullyConfigured /\ RunOver /\ since_last # "changed") =>
        /\ Attempted = {}
        /\ notified_file.ids = loaded

\* C5 amended: when upstream published nothing since the previous run and
\* that run had no fetch failure and no delivery failure, the run attempts no
\* delivery and leaves the persisted seen-sets with the content it loaded.
C5_IdempotentAfterCleanRun ==
    (RunOver /\ since_last = "clean") =>
        /\ Attempted = {}
        /\ notified_file.ids = loaded

\* C5 witness: such a re-run, with seen posts in the windows it fetched
C5_Witness ==
    /\ RunOver /\ since_last = "clean"
    /\ loaded # NoIds
    /\ \E k \in Keys(log, "fetched", TRUE) : k[2] \in loaded[k[1]]
    /\ notified_file.ids = loaded

\* C6 as stated: a delivery of a post with tier-set {restricted_id} goes to the
\* Gourmet webhook, a delivery of a post with empty tier-set or whose tier-set
\* contains public_id goes to the public webhook, and no post is delivered to
\* both.  Read in a fully configured environment.
C6_Original ==
    FullyConfigured =>
    /\ \A e \in PatreonSends :
          LET p == PostOf(e.id) IN
          /\ (HasRestricted(p) /\ p.tiers = {cfg.target_tier_id}) => e.dest = "gourmet"
          /\ (p.tiers = {} \/ HasPublic(p)) => e.dest = "public"
    /\ \A d1, d2 \in delivered : (d1[1] = d2[1] /\ d1[2] = d2[2]) => d1[3] = d2[3]

\* C6 amended: a post whose tier-set contains restricted_id is delivered only
\* to the Gourmet webhook; a post with empty tier-set, or whose tier-set contains
\* public_id and not restricted_id, only to the public webhook; no post is
\* delivered to both; and when the run is over every such new post outside
\* the maintenance window had its delivery attempted if its webhook is set.
C6_TierRouting ==
    /\ \A e \in PatreonSends :
          LET p == PostOf(e.id) IN
          /\ ~InMaintenanceWindow(p)
          /\ HasRestricted(p) => e.dest = "gourmet"
          /\ (~HasRestricted(p) /\ (p.tiers = {} \/ HasPublic(p))) => e.dest = "public"
          /\ e.dest \in {"gourmet", "public"}
          /\ ~MatchesNeither(p)
    /\ \A d1, d2 \in delivered : (d1[1] = d2[1] /\ d1[2] = d2[2]) => d1[3] = d2[3]
    /\ (RunOver /\ loaded # NoIds) =>
          \A k \in Keys(log, "fetched", TRUE) :
              (k[1] = "patreon" /\ k[2] \notin loaded["patreon"] /\ RoutedToWebhook(PostOf(k[2])))
                  => k \in Attempted

\* C6 witness: a post visible to both tiers was delivered to the Gourmet
\* webhook, and a post without tiers to the public webhook, in one run
C6_Witness ==
    /\ RunOver
    /\ \E e \in PatreonSends :
          e.ok /\ e.dest = "gourmet" /\ HasPublic(PostOf(e.id)) /\ HasRestricted(PostOf(e.id))
    /\ \E e \in PatreonSends : e.ok /\ e.dest = "public" /\ PostOf(e.id).tiers = {}

\* a post that was never marked seen and never sent anywhere
Pending(p) ==
    /\ p.id \notin Persisted("patreon")
    /\ Running => p.id \notin notified_ids["patreon"]
    /\ p.id \notin DeliveredIds("patreon")
    /\ <<"patreon", p.id>> \notin Attempted

\* C7 as stated: a post whose tier-set is non-empty and contains neither
\* configured tier id is delivered nowhere and is never marked seen.  Read in
\* a fully configured environment.
C7_Original ==
    FullyConfigured =>
        \A p \in Range(patreon_posts) : MatchesNeither(p) => Pending(p)

\* C7 amended: the same for the posts published outside the maintenance
\* window (a post of the window is marked seen whatever its tiers).
C7_NeitherTierStaysPending ==
    \A p \in Range(patreon_posts) :
        (MatchesNeither(p) /\ ~InMaintenanceWindow(p)) => Pending(p)

\* C7 witness: a run that was not a first run fetched such a post and left
\* it pending
C7_Witness ==
    /\ RunOver /\ loaded # NoIds
    /\ \E p \in Range(patreon_posts) :
          /\ MatchesNeither(p) /\ ~InMaintenanceWindow(p)
          /\ <<"patreon", p.id>> \in Keys(log, "fetched", TRUE)
          /\ Pending(p)

\* C8 as stated: a post of the maintenance window that a run fetched is in the
\* persisted seen-set when that run is over, and is never delivered.  Read
\* in a fully configured environment.
C8_Claim ==
    (FullyConfigured /\ RunOver) =>
        \A k \in Keys(log, "fetched", TRUE) :
            (k[1] = "patreon" /\ InMaintenanceWindow(PostOf(k[2]))) =>
                /\ k[2] \in Persisted("patreon")
                /\ k[2] \notin DeliveredIds("patreon")
                /\ k \notin Attempted

\* C9: a delivery is attempted only for an identifier that is not in the
\* loaded seen-set and was not marked or attempted earlier in the run: at most
\* one attempt per identifier and run.
C9_OneAttemptPerNewId ==
    Running =>
        \A k \in 1..Len(log) :
            log[k].op = "send" =>
                /\ log[k].id \notin loaded[log[k].src]
                /\ \A j \in 1..(k - 1) :
                      (log[j].src = log[k].src /\ log[j].id = log[k].id)
                          => log[j].op \notin {"send", "absorb", "skip"}

\* C9 witness: the window held a seen illustration and a new one; the run
\* attempted the new one only, it failed, and was not attempted again
C9_Witness ==
    /\ RunOver
    /\ \E old \in loaded["pixiv"] : <<"pixiv", old>> \in Keys(log, "fetched", TRUE)
    /\ \E k \in Keys(log, "send", FALSE) :
          k[1] = "pixiv" /\ Cardinality(Positions(log, "send", "pixiv", k[2])) = 1
    /\ Cardinality({k \in Attempted : k[1] = "pixiv"}) = 1

\* C10: when the Twitter checker is over, every configured account was
\* checked whatever happened to the accounts before it, and every tweet fetched
\* for an account is persisted unless its delivery failed.
C10_AccountIsolation ==
    (RunOver /\ cfg.prog = "discord") =>
        /\ \A j \in 1..Len(cfg.twitter_usernames) :
              \E e \in Entries : e.op = "check" /\ e.id = cfg.twitter_usernames[j]
        /\ \A k \in Keys(log, "fetched", TRUE) :
              k[1] = "twitter" => (k[2] \in Persisted("twitter") \/ k \in Keys(log, "send", FALSE))

\* C10 witness: the fetch of the first account raised, and a tweet of the
\* second account was then fetched, delivered and persisted
C10_Witness ==
    /\ RunOver
    /\ \E a, b \in 1..Len(log) :
          /\ a < b
          /\ log[a].op = "fetchfail" /\ log[a].src = "twitter"
          /\ log[a].id = cfg.twitter_usernames[1]
          /\ log[b].op = "send" /\ log[b].ok /\ log[b].src = "twitter"
          /\ log[b].id \in Persisted("twitter")

\* C11: the orchestrator calls each checker once per run and in sequence
\* (Pixiv, then the Twitter checker, which visits every account once, in
\* order), whatever a checker met, the run ends with "Check complete", and a
\* run that started reaches that end.
C11_SequentialCheckers ==
    /\ [][/\ pc' = "pixiv" => pc = "idle"
          /\ pc = "pixiv" => (pc' = "twitter" /\ account_i' = 1)
          /\ pc' = "twitter" => pc \in {"pixiv", "twitter"}
          /\ (pc = "twitter" /\ pc' = "twitter") =>
                 /\ account_i <= Len(cfg.twitter_usernames)
                 /\ account_i' = account_i + 1
                 /\ \E k \in (Len(log) + 1)..Len(log') :
                        log'[k].op = "check" /\ log'[k].id = cfg.twitter_usernames[account_i]
          /\ pc = "twitter" => pc' \in {"twitter", "done"}
          /\ pc = "patreon" => pc' = "done"
          /\ pc' = "done" =>
                 /\ pc \in {"twitter", "patreon"}
                 /\ pc = "twitter" => account_i = Len(cfg.twitter_usernames) + 1
                 /\ log'[Len(log')].op = "complete"]_vars
    /\ (pc \in {"pixiv", "twitter", "patreon"}) ~> (pc = "done")

\* C11 witness: the Pixiv fetch raised, then a delivery of a tweet failed, and
\* the run completed
C11_Witness ==
    /\ RunOver
    /\ \E a, b \in 1..Len(log) :
          /\ a < b
          /\ log[a].op = "fetchfail" /\ log[a].src = "pixiv"
          /\ log[b].op = "send" /\ log[b].src = "twitter" /\ ~log[b].ok
    /\ log[Len(log)].op = "complete"

\* C12 (lost update): every save of the running process rewrites the file
\* with exactly the sets of its own memory, whatever the file held (nothing is
\* merged on disk); as long as no invocation overlapped another, every
\* delivered identifier is persisted and nothing was delivered twice.
C12_LostUpdate ==
    /\ [][(\E k \in (Len(log) + 1)..Len(log') : log'[k].op = "save")
              => notified_file'.ids = notified_ids']_vars
    /\ [](overlap = "no" =>
             /\ redelivered = {}
             /\ \A src \in Sources : DeliveredIds(src) \subseteq Persisted(src))

\* C12 witness: after two invocations overlapped, a later run loaded a file
\* without an identifier that had been delivered and saved, and delivered
\* the post again
C12_Witness ==
    /\ FullyConfigured
    /\ RunOver /\ overlap = "past"
    /\ \E k \in Keys(log, "send", TRUE) :
          /\ k \in redelivered
          /\ k[2] \notin loaded[k[1]]
          /\ k[2] \in Persisted(k[1])

\* C13 as stated: when a checker invocation is over (one account, for the
\* Twitter checker), every identifier marked seen in the memory of the process,
\* by a delivery, a first-run absorption or the maintenance-window skip, is in
\* the state file.  Read in a fully configured environment.
C13_Claim ==
    (FullyConfigured /\ Running) =>
        \A src \in Sources : notified_ids[src] \subseteq Persisted(src)

\* C14 as stated: starting from an absent or empty state file, a post that was
\* in a latest-K window upstream when the first run started is never delivered,
\* by that run or by a later one.  Read in a fully configured environment.
C14_Claim ==
    FullyConfigured =>
        \A k \in at_first.ids : k[2] \notin DeliveredIds(k[1])

\* the entry of the trace is the delay between two notifications
\* (time.sleep(3)), not the delay between two accounts
IsDelay(e) == e.op = "sleep" /\ e.id = NOTIFY_DELAY /\ e.dest # "none"

\* C15 as stated, a checker invocation being check_pixiv_new_posts, one
\* account of check_twitter_new_posts, or check_new_posts: two delivery
\* attempts of one invocation never follow each other without a delay.  Read
\* in a fully configured environment.
C15_Original ==
    (FullyConfigured /\ Running) =>
        \A k \in 1..(Len(log) - 1) :
            (log[k].op = "send" /\ log[k + 1].op = "send") => log[k].src # log[k + 1].src

\* C15 amended: within one notification loop (the Pixiv checker, one Twitter
\* account, one tier of the Patreon checker) of a run that is not a first run,
\* a 3-second delay follows every delivery attempt but the last, whether the
\* attempt succeeded or not, and there is no other such delay: a delay stands
\* between two attempts of the same loop, an attempt is followed by a delay,
\* by the save that ends the loop, or (Patreon) by the first attempt of the
\* public tier after the last one of the Gourmet tier; a first run has no
\* delay.
C15_DelayBetweenAttempts ==
    Running =>
        /\ \A k \in 1..Len(log) :
              IsDelay(log[k]) =>
                  /\ ~is_first_run
                  /\ k > 1 /\ k < Len(log)
                  /\ log[k - 1].op = "send" /\ log[k + 1].op = "send"
                  /\ log[k - 1].src = log[k].src /\ log[k + 1].src = log[k].src
                  /\ log[k - 1].dest = log[k].dest /\ log[k + 1].dest = log[k].dest
                  /\ log[k - 1].id # log[k + 1].id
        /\ \A k \in 1..(Len(log) - 1) :
              log[k].op = "send" =>
                  \/ IsDelay(log[k + 1])
                  \/ log[k + 1].op = "save"
                  \/ /\ log[k + 1].op = "send"
                     /\ log[k].dest = "gourmet" /\ log[k + 1].dest = "public"

\* C15 witness: a run that was not a first run attempted two illustrations:
\* the first attempt failed, a delay followed, the second succeeded and was
\* followed by the save
C15_Witness ==
    /\ RunOver
    /\ \E k \in 1..(Len(log) - 3) :
          /\ log[k].op = "send" /\ ~log[k].ok /\ log[k].src = "pixiv"
          /\ IsDelay(log[k + 1])
          /\ log[k + 2].op = "send" /\ log[k + 2].ok
          /\ log[k + 3].op = "save"

\* the entry of the trace is the processing of a new post
IsProcessing(e) == e.op \in {"absorb", "send"}

\* the entries at i and j process two posts of one source, and the fetch
\* returned the post of i before the post of j
InFetchOrder(i, j) ==
    \A fi \in Positions(log, "fetched", log[i].src, log[i].id) :
        \A fj \in Positions(log, "fetched", log[j].src, log[j].id) : fi < fj

\* C16 as stated: the new posts of a source are processed (absorbed, or
\* attempted for delivery) in the order in which the fetch returned them.
\* Read in a fully configured environment.
C16_Original ==
    (FullyConfigured /\ Running) =>
        \A i, j \in 1..Len(log) :
            (i < j /\ IsProcessing(log[i]) /\ IsProcessing(log[j])
                   /\ log[i].src = log[j].src /\ log[i].id # log[j].id)
                => InFetchOrder(i, j)

\* C16 amended: the new posts of the Pixiv checker, of one Twitter account and
\* of one tier of the Patreon checker are processed in fetch order; the
\* Patreon checker processes every new Gourmet post before any new public
\* post, wherever the fetch returned them.
C16_FetchOrderWithinLoop ==
    Running =>
        \A i, j \in 1..Len(log) :
            (i < j /\ IsProcessing(log[i]) /\ IsProcessing(log[j])
                   /\ log[i].src = log[j].src /\ log[i].id # log[j].id)
                => IF log[i].dest = log[j].dest
                   THEN InFetchOrder(i, j)
                   ELSE log[i].dest = "gourmet" /\ log[j].dest = "public"

\* C16 witness: two new posts of one loop were processed in the order the
\* fetch returned them, the newer one first
C16_Witness ==
    /\ RunOver
    /\ \E i, j \in 1..Len(log) :
          /\ i < j /\ IsProcessing(log[i]) /\ IsProcessing(log[j])
          /\ log[i].src = log[j].src /\ log[i].dest = log[j].dest
          /\ log[i].id > log[j].id
          /\ Positions(log, "fetched", log[i].src, log[i].id) # {}
          /\ InFetchOrder(i, j)

\* C17: a step in which a fetch raised (the Pixiv feed, the lookup or the feed
\* of a Twitter account, the Patreon feed) makes no delivery attempt, absorbs
\* and saves nothing, leaves the memory and the state file as they were, and
\* the run goes on to what follows the checker (the next checker, the next
\* account, "Check complete").
C17_FetchFailureFrame ==
    [][(\E k \in (Len(log) + 1)..Len(log') : log'[k].op = "fetchfail") =>
          /\ notified_ids' = notified_ids
          /\ notified_file' = notified_file
          /\ \A k \in (Len(log) + 1)..Len(log') :
                 log'[k].op \in {"sleep", "check", "fetchfail", "complete"}
          /\ \/ pc = "pixiv" /\ pc' = "twitter"
             \/ pc = "twitter" /\ pc' = "twitter" /\ account_i' = account_i + 1
             \/ pc = "patreon" /\ pc' = "done"]_vars

\* C17 witness: every fetch of a run that was not a first run raised while a
\* new post was upstream: nothing was attempted and the memory and the file
\* are as loaded
C17_Witness ==
    /\ RunOver /\ loaded # NoIds
    /\ Keys(log, "fetchfail", FALSE) # {}
    /\ Keys(log, "fetched", TRUE) = {}
    /\ \E w \in Windows : w[2] \notin loaded[w[1]]
    /\ Attempted = {}
    /\ notified_ids = loaded /\ notified_file.ids = loaded

\* nothing of a source was delivered, and the running process has marked no
\* identifier of it: its memory and the file hold what was loaded
Untouched(src) ==
    /\ DeliveredIds(src) = {}
    /\ Running => (notified_ids[src] = loaded[src] /\ Persisted(src) = loaded[src])

\* the posts the classification gives to each tier
ToGourmet(p) == ~InMaintenanceWindow(p) /\ HasRestricted(p)

ToPublic(p) == ~InMaintenanceWindow(p) /\ ~HasRestricted(p) /\ (p.tiers = {} \/ HasPublic(p))

\* C18 as stated: a source whose webhook or credential is missing is left
\* untouched (for a missing Patreon tier webhook: the posts of that tier are).
C18_Original ==
    /\ (cfg.prog = "discord" /\ ~cfg.pixiv_webhook) => Untouched("pixiv")
    /\ (cfg.prog = "discord" /\ ~cfg.twitter_webhook) => Untouched("twitter")
    /\ (cfg.prog = "patreon" /\ (~cfg.access_token \/ ~cfg.campaign_id)) => Untouched("patreon")
    /\ (cfg.prog = "patreon" /\ ~cfg.webhook_gourmet) =>
           \A p \in Range(patreon_posts) : ToGourmet(p) => Pending(p)
    /\ (cfg.prog = "patreon" /\ ~cfg.webhook_public) =>
           \A p \in Range(patreon_posts) : ToPublic(p) => Pending(p)

\* C18 amended: without the Patreon token or campaign id the checker does
\* nothing at all; without the webhook of a Patreon tier the posts of that tier
\* are neither attempted nor marked; without the Pixiv or Twitter webhook no
\* delivery of that source succeeds and a run that is not a first run marks
\* nothing of it (a first run absorbs as usual).
C18_MissingConfiguration ==
    /\ (cfg.prog = "patreon" /\ (~cfg.access_token \/ ~cfg.campaign_id)) =>
           /\ Untouched("patreon")
           /\ \A e \in Entries : e.op \in {"load", "unconfigured", "complete"}
    /\ (cfg.prog = "patreon" /\ ~cfg.webhook_gourmet) =>
           \A p \in Range(patreon_posts) : ToGourmet(p) => Pending(p)
    /\ (cfg.prog = "patreon" /\ ~cfg.webhook_public) =>
           \A p \in Range(patreon_posts) : ToPublic(p) => Pending(p)
    /\ \A src \in {"pixiv", "twitter"} :
           (cfg.prog = "discord" /\ ~cfg[src \o "_webhook"]) =>
               /\ DeliveredIds(src) = {}
               /\ (Running /\ ~is_first_run) =>
                      (notified_ids[src] = loaded[src] /\ Persisted(src) = loaded[src])

\* C18 witness: without the Pixiv webhook, a run that was not a first run
\* attempted a new illustration, failed, left it unmarked, and went on to
\* deliver a tweet
C18_Witness ==
    /\ RunOver /\ cfg.prog = "discord" /\ ~cfg.pixiv_webhook /\ ~is_first_run
    /\ \E k \in Keys(log, "send", FALSE) : k[1] = "pixiv" /\ k[2] \notin Persisted("pixiv")
    /\ \E k \in Keys(log, "send", TRUE) : k[1] = "twitter"

\* C19: over a sequence of runs that follow one another, every post identifier
\* is successfully delivered at most once: no run delivers what an earlier run
\* delivered, and no run delivers the same identifier twice.
C19_NoDuplicateNotifications ==
    /\ redelivered = {}
    /\ \A k \in Keys(log, "send", TRUE) :
           Cardinality({j \in Positions(log, "send", k[1], k[2]) : log[j].ok}) = 1

\* C19 witness: a run that delivered a new post also fetched a post that an
\* earlier run had delivered, and did not attempt it
C19_Witness ==
    /\ RunOver /\ ~is_first_run
    /\ Keys(log, "send", TRUE) # {}
    /\ \E d \in delivered :
          /\ <<d[1], d[2]>> \in Keys(log, "fetched", TRUE)
          /\ <<d[1], d[2]>> \notin Attempted

\* C20: over a sequence of runs that follow one another the persisted seen-sets
\* only grow, every save writes a superset of what was persisted at load, the
\* memory of a process starts from what was persisted and loses no identifier
\* for as long as the process lives.
C20_MonotoneState ==
    /\ [][/\ \A src \in Sources : Persisted(src) \subseteq notified_file'.ids[src]
          /\ pc' # "idle" => \A src \in Sources : notified_ids[src] \subseteq notified_ids'[src]
          /\ (\E k \in (Len(log) + 1)..Len(log') : log'[k].op = "save")
                 => \A src \in Sources : loaded[src] \subseteq notified_file'.ids[src]]_vars
    /\ [](Running => \A src \in Sources :
                        /\ loaded[src] \subseteq notified_ids[src]
                        /\ loaded[src] \subseteq Persisted(src))

\* C20 witness: a run loaded a non-empty seen-set and its save wrote that set
\* and one identifier more
C20_Witness ==
    /\ RunOver
    /\ \E k \in 1..Len(log) : log[k].op = "save"
    /\ \E src \in Sources :
          /\ loaded[src] # {}
          /\ loaded[src] \subseteq Persisted(src)
          /\ Persisted(src) # loaded[src]

=============================================================================
